---------------------------- MODULE Spec2Model ----------------------------
(***************************************************************************)
(* The chunk streaming scheduler of src/src/chunks/ChunkManager.ts:        *)
(* update() ticks, the priority queue, the concurrency gate, the fetch     *)
(* completions of loadChunk() and eviction.                                *)
(*                                                                         *)
(* A fetch is an object of its own (a promise and its AbortController):    *)
(* `fetches` holds the fetches that were started and have not settled.     *)
(* All handlers run to completion on one thread, so each handler is one    *)
(* action; a fetch settles in a later action than the one that started or  *)
(* aborted it.                                                             *)
(***************************************************************************)
EXTENDS Integers, Sequences, FiniteSets, TLC

(***************************************************************************)
(* Program constants (ChunkManager.ts:5-18).                               *)
(***************************************************************************)
CHUNK_SIZE == 100
LOAD_RADIUS == 10
UNLOAD_RADIUS == 12
RETRY_DELAY_MS == 750
FAILED_CHUNK_COOLDOWN_MS == 5000

\* The source sets the budget to 20 (ChunkManager.ts:8).  The model follows
\* only the chunks of Grid, so the budget is scaled to a value those chunks
\* can fill; every formula is stated over this name, not over a number.
MAX_CONCURRENT_LOADS == 2

\* Distance bands; the last band of the source has maxDistance Infinity.
LOD_LEVELS ==
    << [maxDistance |-> 120, resolution |-> 128, unbounded |-> FALSE],
       [maxDistance |-> 200, resolution |-> 64, unbounded |-> FALSE],
       [maxDistance |-> 600, resolution |-> 32, unbounded |-> FALSE],
       [maxDistance |-> 0, resolution |-> 16, unbounded |-> TRUE] >>

(***************************************************************************)
(* Bounds of the model.                                                    *)
(***************************************************************************)
\* The chunks the model follows are <<x, 0>> for x in 0..GridMaxX.
GridMaxX == 4
\* No handler runs once this many fetches have been started.
MaxFetches == 5

\* Time passes between handlers in steps of ClockStep, up to MaxNow: far
\* enough for a cooldown to run out.
ClockStep == FAILED_CHUNK_COOLDOWN_MS \div 2

MaxNow == FAILED_CHUNK_COOLDOWN_MS

\* A busy-waiting queue drain can be at any rotation when the clock passes
\* a cooldown.  The queue holds at most one entry per chunk of Grid, so the
\* rotations 0..MaxPhase are all of them.
MaxPhase == GridMaxX

Grid == {<<x, 0>> : x \in 0..GridMaxX}

\* The chunks of Grid in the order the loops of update() visit them
\* (x ascending, then z ascending).
RECURSIVE GridFrom(_)
GridFrom(x) == IF x > GridMaxX THEN << >> ELSE << <<x, 0>> >> \o GridFrom(x + 1)

GridSeq == GridFrom(0)

\* Observer positions (world metres) handed to update().
CameraPositions == { <<-950, 50>>, <<50, 50>>, <<1350, 50>> }

Outcomes == {"ok", "notReady", "demMissing", "decodeError", "fetchError"}

(***************************************************************************)
(* JavaScript Map and Set operations.                                      *)
(***************************************************************************)
MapHas(m, k) == k \in DOMAIN m

MapSet(m, k, v) == [x \in (DOMAIN m) \cup {k} |-> IF x = k THEN v ELSE m[x]]

MapDelete(m, k) == [x \in (DOMAIN m) \ {k} |-> m[x]]

EmptyMap == [x \in {} |-> 0]

\* pendingRetryChunks is kept as a sequence of [key, time] records because
\* update() iterates it in insertion order.
SeqMapIndex(q, k) ==
    IF \E i \in 1..Len(q) : q[i].key = k
    THEN CHOOSE i \in 1..Len(q) : q[i].key = k
    ELSE 0

SeqMapHas(q, k) == SeqMapIndex(q, k) # 0

SeqMapGet(q, k) == q[SeqMapIndex(q, k)].time

SeqMapSet(q, k, t) ==
    IF SeqMapHas(q, k)
    THEN [q EXCEPT ![SeqMapIndex(q, k)].time = t]
    ELSE Append(q, [key |-> k, time |-> t])

SeqMapDelete(q, k) == SelectSeq(q, LAMBDA e : e.key # k)

SeqMapKeys(q) == {q[i].key : i \in 1..Len(q)}

(***************************************************************************)
(* Pure helpers of ChunkManager.                                           *)
(***************************************************************************)
\* Math.floor(world / CHUNK_SIZE) on both axes.
getChunkCoords(pos) == << pos[1] \div CHUNK_SIZE, pos[2] \div CHUNK_SIZE >>

calculateChunkDistance(cam, key) ==
    LET dx == key[1] - cam[1]
        dz == key[2] - cam[2]
    IN  dx * dx + dz * dz

\* The source takes the square root; the model keeps the square and
\* compares it with the squares of the band limits.
calculateChunkCenterDistanceSq(pos, key) ==
    LET centerX == key[1] * CHUNK_SIZE + CHUNK_SIZE \div 2
        centerZ == key[2] * CHUNK_SIZE + CHUNK_SIZE \div 2
        dx == centerX - pos[1]
        dz == centerZ - pos[2]
    IN  dx * dx + dz * dz

RECURSIVE selectFrom(_, _)
\* Mutant: a distance equal to the limit of a band falls into the next band.
selectFromStrict(distanceSq, i) ==
    IF i > Len(LOD_LEVELS) THEN LOD_LEVELS[Len(LOD_LEVELS)].resolution
    ELSE IF LOD_LEVELS[i].unbounded
            \/ distanceSq < LOD_LEVELS[i].maxDistance * LOD_LEVELS[i].maxDistance
         THEN LOD_LEVELS[i].resolution
         ELSE selectFrom(distanceSq, i + 1)

selectFrom(distanceSq, i) ==
    IF i > Len(LOD_LEVELS) THEN LOD_LEVELS[Len(LOD_LEVELS)].resolution
    ELSE IF LOD_LEVELS[i].unbounded
            \/ distanceSq <= LOD_LEVELS[i].maxDistance * LOD_LEVELS[i].maxDistance
         THEN LOD_LEVELS[i].resolution
         ELSE selectFrom(distanceSq, i + 1)

selectResolution(distanceSq) == selectFrom(distanceSq, 1)

Abs(n) == IF n < 0 THEN -n ELSE n

Chebyshev(cam, key) ==
    LET dx == Abs(key[1] - cam[1])
        dz == Abs(key[2] - cam[2])
    IN  IF dx > dz THEN dx ELSE dz

\* History only: the key has a mesh of this resolution.
Resident(s, key, resolution) ==
    MapHas(s.loadedChunks, key) /\ s.loadedChunks[key] = resolution

\* Mutant: the resolution of a mesh is never found.
meshResolutionUnknown(s, key) == 0

\* The resolution of the mesh in loadedChunks (0 stands for undefined).
meshResolutionOf(s, key) ==
    IF MapHas(s.loadedChunks, key) THEN s.loadedChunks[key] ELSE 0

(***************************************************************************)
(* State.                                                                  *)
(***************************************************************************)
VARIABLES
    loadedChunks,        \* key -> resolution of the resident mesh
    loadingChunks,       \* set of keys
    loadQueue,           \* sequence of [chunkX, chunkZ, distanceSquared, resolution]
    pendingRetryChunks,  \* sequence of [key, time], in insertion order
    failedChunks,        \* key -> time the cooldown ends
    blacklistedChunks,   \* set of keys
    abortControllers,    \* key -> id of the fetch the stored controller aborts
    loadingResolutions,  \* key -> resolution
    fetches,             \* id -> the fetches that were started and have not settled
    started,             \* number of fetches started so far
    now,                 \* Date.now()
    lastCamera,          \* history: observer chunk of the latest update(), << >> before the first
    afterUpdate,         \* history: the latest handler was update()
    hardFail,            \* history: key -> time of its latest fetch error since eviction
    decodeFailed,        \* history: the keys a fetch of which ended in a decode failure
    reRequest,           \* history: key -> [resolution, count] since a resolution-change abort
    evicted,             \* history: the keys the latest handler removed from loadedChunks
    requeued,            \* history: key -> the requests of the latest handler for queued keys
    drain,               \* history: what the queue drains of the latest handler did
    notReadyAt,          \* history: key -> time of its latest not-ready answer
    settled,             \* history: what the latest handler did if it was a fetch completion
    enqueuedResident,    \* history: the keys the latest update() queued at the resolution of their mesh
    selected,            \* [distanceSq, resolution]: an argument of selectResolution and its result
    lifecycle,           \* "live", "justDestroyed" (destroy() has just returned) or "destroyed"
    afterFirstUpdate,    \* history: the latest handler was update() on a manager without history
    latest,              \* history: [handler, fetch], the latest handler and the fetch it settled
    debugVisuals,        \* meshBuilder.debugVisuals: the material new meshes are built with
    records,             \* ImageryTileCache.records: tile key -> [status, listeners]
    tileLoads,           \* per tile key: getTile calls, loads issued, loads not yet settled
    callbacks,           \* per tile key and callback: subscribe calls, invocations,
                         \* the unsubscribe functions handed out
    requested            \* fetchChunkOnce: [resolution, urlResolution]

vars == << loadedChunks, loadingChunks, loadQueue, pendingRetryChunks, failedChunks,
           blacklistedChunks, abortControllers, loadingResolutions, fetches, started,
           now, lastCamera, afterUpdate, hardFail, decodeFailed, reRequest,
           evicted, requeued, drain, notReadyAt, settled, enqueuedResident, selected,
           lifecycle, afterFirstUpdate, latest, debugVisuals,
           records, tileLoads, callbacks, requested >>

\* The handlers are sequential code: they are written as operators from a
\* record of the fields to the record after the call.
Fields ==
    [ loadedChunks |-> loadedChunks, loadingChunks |-> loadingChunks,
      loadQueue |-> loadQueue, pendingRetryChunks |-> pendingRetryChunks,
      failedChunks |-> failedChunks, blacklistedChunks |-> blacklistedChunks,
      abortControllers |-> abortControllers, loadingResolutions |-> loadingResolutions,
      fetches |-> fetches, started |-> started, now |-> now,
      lastCamera |-> lastCamera,
      hardFail |-> hardFail, decodeFailed |-> decodeFailed, reRequest |-> reRequest,
      evicted |-> evicted, requeued |-> requeued, drain |-> drain,
      notReadyAt |-> notReadyAt, settled |-> settled,
      enqueuedResident |-> enqueuedResident ]

Commit(s) ==
    /\ loadedChunks' = s.loadedChunks
    /\ loadingChunks' = s.loadingChunks
    /\ loadQueue' = s.loadQueue
    /\ pendingRetryChunks' = s.pendingRetryChunks
    /\ failedChunks' = s.failedChunks
    /\ blacklistedChunks' = s.blacklistedChunks
    /\ abortControllers' = s.abortControllers
    /\ loadingResolutions' = s.loadingResolutions
    /\ fetches' = s.fetches
    /\ started' = s.started
    /\ lastCamera' = s.lastCamera
    /\ now' = s.now
    /\ hardFail' = s.hardFail
    /\ decodeFailed' = s.decodeFailed
    /\ reRequest' = s.reRequest
    /\ evicted' = s.evicted
    /\ requeued' = s.requeued
    /\ drain' = s.drain
    /\ notReadyAt' = s.notReadyAt
    /\ settled' = s.settled
    /\ enqueuedResident' = s.enqueuedResident
    /\ UNCHANGED << selected, debugVisuals, records, tileLoads, callbacks, requested >>

\* The latest handler was not a fetch completion.
NoSettle ==
    [ key |-> << >>, outcome |-> "none", current |-> FALSE, installed |-> FALSE,
      buildFailed |-> FALSE, cooldownSet |-> FALSE, failedChanged |-> FALSE,
      blacklistSet |-> FALSE, blacklistChanged |-> FALSE, pendingChanged |-> FALSE,
      penalised |-> FALSE, loadedChanged |-> FALSE, dropped |-> {}, cleared |-> FALSE,
      started |-> 0 ]

\* update() has queued no key at the resolution of its mesh, neither in the
\* loop over the window nor in the sweep of the due retries.
NoEnqueuedResident == [window |-> {}, sweep |-> {}]

\* The latest handler; `fetch` is the identity of the fetch a completion
\* settled where the specification follows it, 0 otherwise.
Latest(handler, fetch) == [handler |-> handler, fetch |-> fetch]

\* selectResolution has not been called on the distance drawn.
NotSelected == 0

\* No queue drain has run: nothing was pushed back, nothing was dequeued after
\* a push-back, no busy-wait, no entry was started ahead of a nearer one.
NoDrain == [pushed |-> FALSE, resumed |-> FALSE, busyWaited |-> FALSE, overtaken |-> FALSE]

\* The tiles and the callbacks of the imagery specification.
TileCoordinates == { [z |-> 1, x |-> 0, y |-> 0], [z |-> 1, x |-> 1, y |-> 0] }

\* getKey: `${coord.z}/${coord.x}/${coord.y}`, kept as the three numbers.
getKey(coord) == << coord.z, coord.x, coord.y >>

TileKeys == { getKey(coord) : coord \in TileCoordinates }

Callbacks == { "onReadyA", "onReadyB" }

\* gets: getTile calls; late: those made after the load settled; issued:
\* loader.load calls; pending: loads whose onLoad or onError is still to come.
NoTileLoads == [key \in TileKeys |-> [gets |-> 0, late |-> 0, issued |-> 0, pending |-> 0]]

\* calls: subscribe calls with this callback; invoked: its invocations;
\* unsubscribed: an unsubscribe function of it ran after its latest subscribe;
\* unsubscribe: the kinds of unsubscribe function handed out for it.
NoCallbacks ==
    [key \in TileKeys |->
        [cb \in Callbacks |->
            [calls |-> 0, invoked |-> 0, unsubscribed |-> FALSE, unsubscribe |-> {}]]]

\* fetchChunkOnce has not been called.
NotRequested == [resolution |-> 0, urlResolution |-> 0]

Init ==
    /\ loadedChunks = EmptyMap
    /\ loadingChunks = {}
    /\ loadQueue = << >>
    /\ pendingRetryChunks = << >>
    /\ failedChunks = EmptyMap
    /\ blacklistedChunks = {}
    /\ abortControllers = EmptyMap
    /\ loadingResolutions = EmptyMap
    /\ fetches = EmptyMap
    /\ started = 0
    /\ now = 0
    /\ lastCamera = << >>
    /\ afterUpdate = FALSE
    /\ hardFail = EmptyMap
    /\ decodeFailed = {}
    /\ reRequest = EmptyMap
    /\ evicted = {}
    /\ requeued = EmptyMap
    /\ drain = NoDrain
    /\ notReadyAt = EmptyMap
    /\ enqueuedResident = NoEnqueuedResident
    /\ settled = NoSettle
    /\ lifecycle = "live"
    /\ afterFirstUpdate = FALSE
    /\ latest = Latest("constructor", 0)
    /\ debugVisuals = FALSE
    /\ records = EmptyMap
    /\ tileLoads = NoTileLoads
    /\ callbacks = NoCallbacks
    /\ requested = NotRequested
    /\ selected = [distanceSq |-> 0, resolution |-> NotSelected]

(***************************************************************************)
(* enqueueChunkLoad                                                        *)
(***************************************************************************)
\* Mutant: the entry of the key is never found.
existingIndexNeverFound(q, key) == 0

\* Array.findIndex: the first index that satisfies the test, 0 when there is
\* none (the source's -1).
existingIndexOf(q, key) ==
    LET hits == {i \in 1..Len(q) : q[i].chunkX = key[1] /\ q[i].chunkZ = key[2]}
    IN  IF hits = {} THEN 0 ELSE CHOOSE i \in hits : \A j \in hits : i <= j

insertIndexOf(q, distanceSquared) ==
    LET hits == {i \in 1..Len(q) : distanceSquared < q[i].distanceSquared}
    IN  IF hits = {} THEN 0 ELSE CHOOSE i \in hits : \A j \in hits : i <= j

RemoveAt(q, i) == SubSeq(q, 1, i - 1) \o SubSeq(q, i + 1, Len(q))

InsertAt(q, i, e) == SubSeq(q, 1, i - 1) \o << e >> \o SubSeq(q, i, Len(q))

\* Mutant: an entry of the same resolution counts as unchanged whatever its
\* priority.
sameRequestResolutionOnly(existing, resolution, distanceSquared) ==
    existing.resolution = resolution

\* existing.resolution === resolution && existing.distanceSquared === distanceSquared
sameRequest(existing, resolution, distanceSquared) ==
    existing.resolution = resolution /\ existing.distanceSquared = distanceSquared

enqueueChunkLoad(s, key, cam, resolution) ==
    LET distanceSquared == calculateChunkDistance(cam, key)
        item == [chunkX |-> key[1], chunkZ |-> key[2],
                 distanceSquared |-> distanceSquared, resolution |-> resolution]
        existingIndex == existingIndexOf(s.loadQueue, key)
        unchanged ==
            /\ existingIndex # 0
            /\ sameRequest(s.loadQueue[existingIndex], resolution, distanceSquared)
        q1 == IF existingIndex # 0 THEN RemoveAt(s.loadQueue, existingIndex)
              ELSE s.loadQueue
        insertIdx == insertIndexOf(q1, distanceSquared)
        \* history: the key was queued already
        s1 == IF existingIndex # 0
              THEN [s EXCEPT !.requeued =
                       MapSet(@, key, [resolution |-> resolution,
                                       previous |-> s.loadQueue[existingIndex].resolution,
                                       replaced |-> ~unchanged])]
              ELSE s
    IN  IF unchanged THEN [s EXCEPT !.requeued = s1.requeued]
        ELSE IF insertIdx = 0
             THEN [s1 EXCEPT !.loadQueue = Append(q1, item)]
             ELSE [s1 EXCEPT !.loadQueue = InsertAt(q1, insertIdx, item)]

(***************************************************************************)
(* loadChunk up to its first await: the guards and the start of the fetch. *)
(***************************************************************************)
\* Mutant: the lookup uses a key in another format and never finds it.
IsBlacklistedNeverFound(s, key) == FALSE

IsBlacklisted(s, key) == key \in s.blacklistedChunks

\* A new AbortController and promise: an identity no unsettled fetch has.
FreshId(s) == CHOOSE i \in 1..(Cardinality(DOMAIN s.fetches) + 1) : i \notin DOMAIN s.fetches

\* The fetch object.  Beside the request (key, resolution) and the state of
\* its AbortSignal it records, as history, what held when it was started.
NewFetch(s, key, resolution) ==
    [ key |-> key, resolution |-> resolution, aborted |-> FALSE,
      blacklistedAtStart |-> key \in s.blacklistedChunks,
      cooledDown |-> ~MapHas(s.hardFail, key)
                     \/ s.now >= s.hardFail[key] + FAILED_CHUNK_COOLDOWN_MS,
      afterDecodeFailure |-> key \in s.decodeFailed,
      inLoadRadius |-> s.lastCamera # << >>
                       /\ Chebyshev(s.lastCamera, key) <= LOAD_RADIUS,
      retryDelayOver |-> ~MapHas(s.notReadyAt, key)
                         \/ s.now >= s.notReadyAt[key] + RETRY_DELAY_MS,
      residentAtStart |-> Resident(s, key, resolution) ]

\* failTime !== undefined && Date.now() < failTime
InCooldown(s, key) == MapHas(s.failedChunks, key) /\ s.now < s.failedChunks[key]

loadChunkStart(s, key, resolution) ==
    LET loadingResolution ==
            IF MapHas(s.loadingResolutions, key) THEN s.loadingResolutions[key] ELSE 0
    IN  IF IsBlacklisted(s, key) THEN s
        ELSE IF meshResolutionOf(s, key) = resolution THEN s
        ELSE IF key \in s.loadingChunks /\ loadingResolution = resolution THEN s
        ELSE IF InCooldown(s, key) THEN s
        ELSE [s EXCEPT
                !.loadingChunks = @ \cup {key},
                !.failedChunks = MapDelete(@, key),
                !.pendingRetryChunks = SeqMapDelete(@, key),
                !.abortControllers = MapSet(@, key, FreshId(s)),
                !.loadingResolutions = MapSet(@, key, resolution),
                !.fetches = MapSet(@, FreshId(s), NewFetch(s, key, resolution)),
                !.started = @ + 1,
                !.reRequest =
                    IF MapHas(@, key) /\ @[key].resolution = resolution
                    THEN [@ EXCEPT ![key].count = @ + 1]
                    ELSE @]

(***************************************************************************)
(* processLoadQueue                                                        *)
(***************************************************************************)
RECURSIVE Rotate(_, _)
Rotate(q, n) == IF n = 0 \/ q = << >> THEN q ELSE Rotate(Append(Tail(q), Head(q)), n - 1)

RECURSIVE MinOf(_)
MinOf(S) ==
    LET x == CHOOSE y \in S : TRUE
    IN  IF S = {x} THEN x
        ELSE LET m == MinOf(S \ {x}) IN IF x < m THEN x ELSE m

\* The earliest end of a cooldown among the queued keys.
EarliestCooldownEnd(s) ==
    MinOf({ s.failedChunks[<<s.loadQueue[i].chunkX, s.loadQueue[i].chunkZ>>] :
              i \in 1..Len(s.loadQueue) })

\* An entry would be started if it were dequeued now: none of the tests of
\* the loop body turns it away.
Eligible(s, e) ==
    LET key == <<e.chunkX, e.chunkZ>>
        loadingResolution ==
            IF MapHas(s.loadingResolutions, key) THEN s.loadingResolutions[key] ELSE 0
    IN  /\ ~IsBlacklisted(s, key)
        /\ loadingResolution # e.resolution
        /\ meshResolutionOf(s, key) # e.resolution
        /\ ~InCooldown(s, key)

\* History only: the queue holds an eligible entry of smaller distanceSquared.
NearerEligible(s, distanceSquared) ==
    \E i \in 1..Len(s.loadQueue) :
        /\ s.loadQueue[i].distanceSquared < distanceSquared
        /\ Eligible(s, s.loadQueue[i])

\* One call of processLoadQueue.  `spun` counts the consecutive entries that
\* were pushed back for an unexpired cooldown.  When every queued entry has
\* been pushed back in a row the loop cannot leave until Date.now() passes
\* the earliest cooldown: it busy-waits, rotating the queue, and the clock
\* reaches that time with the queue at some rotation (`phase`).
RECURSIVE processLoadQueueFrom(_, _, _)
processLoadQueueFrom(s, spun, phase) ==
    IF ~(Cardinality(s.loadingChunks) < MAX_CONCURRENT_LOADS /\ Len(s.loadQueue) > 0)
    THEN s
    ELSE
        LET item == Head(s.loadQueue)
            \* history: this entry is dequeued after a push-back of the same call
            s1 == [s EXCEPT !.loadQueue = Tail(@),
                            !.drain.resumed = @ \/ s.drain.pushed]
            key == <<item.chunkX, item.chunkZ>>
            loadingResolution ==
                IF MapHas(s1.loadingResolutions, key) THEN s1.loadingResolutions[key] ELSE 0
            s3 == loadChunkStart(s1, key, item.resolution)
        IN  IF \/ IsBlacklisted(s1, key)
               \/ loadingResolution = item.resolution
               \/ meshResolutionOf(s1, key) = item.resolution
            THEN processLoadQueueFrom(s1, 0, phase)
            ELSE IF InCooldown(s1, key)
            THEN LET s2 == [s1 EXCEPT !.loadQueue = Append(@, item),
                                      !.drain.pushed = TRUE]
                 IN  IF spun + 1 >= Len(s2.loadQueue)
                     THEN processLoadQueueFrom(
                              [s2 EXCEPT !.now = EarliestCooldownEnd(s2),
                                         !.loadQueue = Rotate(@, phase),
                                         !.drain.busyWaited = TRUE],
                              0, phase)
                     ELSE processLoadQueueFrom(s2, spun + 1, phase)
            ELSE processLoadQueueFrom(
                     [s3 EXCEPT !.drain.overtaken =
                         @ \/ (s3.started > s1.started
                                /\ NearerEligible(s1, item.distanceSquared))],
                     0, phase)

\* The push-back mark is per call.
processLoadQueue(s, phase) ==
    [processLoadQueueFrom([s EXCEPT !.drain.pushed = FALSE], 0, phase)
        EXCEPT !.drain.pushed = FALSE]

(***************************************************************************)
(* AbortController.abort() and unloadChunk                                 *)
(***************************************************************************)
\* Aborting the controller stored for `key`; a settled fetch is not affected.
abortStored(s, key) ==
    IF MapHas(s.abortControllers, key) /\ MapHas(s.fetches, s.abortControllers[key])
    THEN [s EXCEPT !.fetches[s.abortControllers[key]].aborted = TRUE]
    ELSE s

unloadChunk(s, key) ==
    LET s1 == abortStored(s, key)
    IN  [s1 EXCEPT
            !.abortControllers = MapDelete(@, key),
            !.loadingChunks = @ \ {key},
            !.pendingRetryChunks = SeqMapDelete(@, key),
            !.failedChunks = MapDelete(@, key),
            !.blacklistedChunks = @ \ {key},
            !.loadingResolutions = MapDelete(@, key),
            !.loadedChunks = MapDelete(@, key),
            !.hardFail = MapDelete(@, key),
            !.reRequest = MapDelete(@, key),
            !.evicted = IF MapHas(s.loadedChunks, key) THEN @ \cup {key} ELSE @]

(***************************************************************************)
(* update                                                                  *)
(***************************************************************************)
desiredResolutionOf(pos, key) == selectResolution(calculateChunkCenterDistanceSq(pos, key))

\* The body of the two nested loops for one cell.  `u` carries the fields
\* and the set enqueuedThisUpdate; `now0` is the clock read on entry.
\* Mutant: a key that failed is not requested again.
CoolingForever(s, key, now0) == MapHas(s.failedChunks, key)

\* failTime !== undefined && now < failTime
CoolingAt(s, key, now0) == MapHas(s.failedChunks, key) /\ now0 < s.failedChunks[key]

updateCell(u, pos, cam, now0, key) ==
    LET s == u.s
        desiredResolution == desiredResolutionOf(pos, key)
        loadingResolution ==
            IF MapHas(s.loadingResolutions, key) THEN s.loadingResolutions[key] ELSE 0
        mismatch == loadingResolution # 0 /\ loadingResolution # desiredResolution
        s1 == IF mismatch
              THEN [abortStored(s, key) EXCEPT
                       !.loadingChunks = @ \ {key},
                       !.loadingResolutions = MapDelete(@, key),
                       !.abortControllers = MapDelete(@, key),
                       !.reRequest = MapSet(@, key, [resolution |-> desiredResolution,
                                                     count |-> 0])]
              ELSE s
        nextRetryKnown == SeqMapHas(s1.pendingRetryChunks, key)
    IN  IF IsBlacklisted(s, key) THEN u
        ELSE IF key \in u.enqueued THEN [u EXCEPT !.s = s1]
        ELSE IF key \in s1.loadingChunks /\ loadingResolution = desiredResolution
             THEN [u EXCEPT !.s = s1]
        ELSE IF meshResolutionOf(s1, key) = desiredResolution THEN [u EXCEPT !.s = s1]
        ELSE IF CoolingAt(s1, key, now0) THEN [u EXCEPT !.s = s1]
        ELSE IF nextRetryKnown /\ now0 < SeqMapGet(s1.pendingRetryChunks, key)
             THEN [u EXCEPT !.s = s1]
        ELSE [s |-> [enqueueChunkLoad(s1, key, cam, desiredResolution) EXCEPT
                        !.enqueuedResident.window =
                            IF Resident(s1, key, desiredResolution)
                            THEN @ \cup {key} ELSE @],
              enqueued |-> u.enqueued \cup {key}]

\* Mutant: the window of the loops reaches as far as the unload radius.
InWindowUnloadRadius(cam, key) ==
    /\ Abs(key[1] - cam[1]) <= UNLOAD_RADIUS
    /\ Abs(key[2] - cam[2]) <= UNLOAD_RADIUS

\* The cells of the window, restricted to Grid, in loop order.
InWindow(cam, key) ==
    /\ Abs(key[1] - cam[1]) <= LOAD_RADIUS
    /\ Abs(key[2] - cam[2]) <= LOAD_RADIUS

RECURSIVE updateCells(_, _, _, _, _)
updateCells(u, pos, cam, now0, cells) ==
    IF cells = << >> THEN u
    ELSE updateCells(
             IF InWindow(cam, Head(cells))
             THEN updateCell(u, pos, cam, now0, Head(cells))
             ELSE u,
             pos, cam, now0, Tail(cells))

\* pendingRetryChunks.forEach: the retries that are due.
RECURSIVE sweepPendingRetries(_, _, _, _, _)
sweepPendingRetries(u, pos, cam, now0, entries) ==
    IF entries = << >> THEN u
    ELSE LET e == Head(entries)
             due == now0 >= e.time /\ e.key \notin u.enqueued
             s1 == enqueueChunkLoad(u.s, e.key, cam, desiredResolutionOf(pos, e.key))
         IN  sweepPendingRetries(
                 IF due
                 THEN [s |-> [s1 EXCEPT
                                !.pendingRetryChunks = SeqMapDelete(@, e.key),
                                !.enqueuedResident.sweep =
                                    IF Resident(u.s, e.key, desiredResolutionOf(pos, e.key))
                                    THEN @ \cup {e.key} ELSE @],
                       enqueued |-> u.enqueued \cup {e.key}]
                 ELSE u,
                 pos, cam, now0, Tail(entries))

\* Mutant: eviction uses the load radius, without the hysteresis band.
OutsideLoadRadius(cam, key) ==
    Abs(key[1] - cam[1]) > LOAD_RADIUS \/ Abs(key[2] - cam[2]) > LOAD_RADIUS

\* Mutant: eviction begins one chunk farther out.
OutsideUnloadRadiusPlusOne(cam, key) ==
    Abs(key[1] - cam[1]) > UNLOAD_RADIUS + 1 \/ Abs(key[2] - cam[2]) > UNLOAD_RADIUS + 1

OutsideUnloadRadius(cam, key) ==
    Abs(key[1] - cam[1]) > UNLOAD_RADIUS \/ Abs(key[2] - cam[2]) > UNLOAD_RADIUS

\* chunksToUnload is collected from loadedChunks before any chunk is unloaded.
RECURSIVE unloadChunks(_, _, _)
unloadChunks(s, toUnload, cells) ==
    IF cells = << >> THEN s
    ELSE unloadChunks(
             IF Head(cells) \in toUnload THEN unloadChunk(s, Head(cells)) ELSE s,
             toUnload, Tail(cells))

\* History only: a re-request is followed while the key stays in the window
\* with the same desired resolution.
keepReRequests(s, pos, cam) ==
    [s EXCEPT !.reRequest =
        [k \in {x \in DOMAIN @ : InWindow(cam, x)
                                 /\ @[x].resolution = desiredResolutionOf(pos, x)}
           |-> @[k]]]

update(s, pos, phase) ==
    LET cam == getChunkCoords(pos)
        now0 == s.now
        u0 == [s |-> [keepReRequests(s, pos, cam) EXCEPT !.lastCamera = cam],
               enqueued |-> {}]
        u1 == updateCells(u0, pos, cam, now0, GridSeq)
        u2 == sweepPendingRetries(u1, pos, cam, now0, u1.s.pendingRetryChunks)
        toUnload == {k \in DOMAIN u2.s.loadedChunks : OutsideUnloadRadius(cam, k)}
        s3 == unloadChunks(u2.s, toUnload, GridSeq)
    IN  processLoadQueue(s3, phase)

(***************************************************************************)
(* loadChunk after its await: the fetch `id` settles.                      *)
(***************************************************************************)
\* The finally block.
loadChunkFinally(s, key, phase) ==
    processLoadQueue(
        [s EXCEPT !.loadingChunks = @ \ {key},
                  !.loadingResolutions = MapDelete(@, key),
                  !.abortControllers = MapDelete(@, key)],
        phase)

\* buildTerrainMesh reads chunk.terrain: it throws on { dem_missing: true }.
\* On a decoded chunk it builds a mesh of the resolution that was requested
\* (the endpoint is asked for that resolution, fetchChunkOnce line 136).
meshBuildThrows(outcome) == outcome = "demMissing"

\* Mutant: the cooldown is set with the delay of the not-ready retry.
cooldownEndRetryDelay(s) == s.now + RETRY_DELAY_MS

\* Date.now() + FAILED_CHUNK_COOLDOWN_MS
cooldownEnd(s) == s.now + FAILED_CHUNK_COOLDOWN_MS

\* The outcomes with which the promise of fetchChunkOnce resolves; with the
\* others it rejects.
Resolved == {"ok", "notReady", "demMissing"}

\* Mutant: an AbortError is handled like a network error.
errorClassAbortCoolsDown(outcome) ==
    IF outcome = "decodeError" THEN "blacklist" ELSE "cooldown"

\* Mutant: a decode failure is handled like a network error.
errorClassDecodeCoolsDown(outcome) ==
    IF outcome = "abort" THEN "ignore" ELSE "cooldown"

\* The catch block: the branch taken for the error the fetch rejected with.
errorClass(outcome) ==
    IF outcome = "abort" THEN "ignore"
    ELSE IF outcome = "decodeError" THEN "blacklist"
    ELSE "cooldown"

\* History only: what the try and catch blocks did to the state `s0` the
\* completion found, seen on entry to the finally block (`x`).
Caught(s0, x, f, outcome, installed, buildFailed) ==
    [x EXCEPT !.settled =
        [ NoSettle EXCEPT
            !.key = f.key,
            !.outcome = outcome,
            !.current = MapHas(s0.loadingResolutions, f.key)
                        /\ s0.loadingResolutions[f.key] = f.resolution,
            !.installed = installed,
            !.buildFailed = buildFailed,
            !.cooldownSet = MapHas(x.failedChunks, f.key)
                            /\ x.failedChunks[f.key] = s0.now + FAILED_CHUNK_COOLDOWN_MS,
            !.failedChanged = x.failedChunks # s0.failedChunks,
            !.blacklistSet = f.key \in x.blacklistedChunks,
            !.blacklistChanged = x.blacklistedChunks # s0.blacklistedChunks,
            !.pendingChanged = x.pendingRetryChunks # s0.pendingRetryChunks ]]

\* Mutant: the mesh the key had is released before the new one is built.
buildAndSwapReleasesFirst(s0, givenUp, f, outcome) ==
    IF meshBuildThrows(outcome)
    THEN [givenUp EXCEPT !.blacklistedChunks = @ \cup {f.key},
                         !.loadedChunks = MapDelete(@, f.key)]
    ELSE [s0 EXCEPT !.loadedChunks = MapSet(@, f.key, f.resolution),
                    !.reRequest = MapDelete(@, f.key)]

\* The inner try: the mesh is built first; only then is the mesh the key
\* had disposed of and the new one stored.  When the build throws, the key is
\* blacklisted and the mesh it had stays.
buildAndSwap(s0, givenUp, f, outcome) ==
    IF meshBuildThrows(outcome)
    THEN [givenUp EXCEPT !.blacklistedChunks = @ \cup {f.key}]
    ELSE [s0 EXCEPT !.loadedChunks = MapSet(@, f.key, f.resolution),
                    !.reRequest = MapDelete(@, f.key)]

\* try, catch and finally of loadChunk after the await.
loadChunkAfterAwait(s, id, outcome, phase) ==
    LET f == s.fetches[id]
        key == f.key
        \* the promise is settled: the fetch is no longer in flight
        s0 == [s EXCEPT !.fetches = MapDelete(@, id)]
        givenUp == [s0 EXCEPT !.reRequest =
                       IF MapHas(@, key) /\ @[key].resolution = f.resolution
                       THEN MapDelete(@, key) ELSE @]
    IN  CASE outcome = "notReady" ->
                loadChunkFinally(
                    processLoadQueue(
                        Caught(s0,
                            [givenUp EXCEPT
                                !.notReadyAt = MapSet(@, key, s.now),
                                !.pendingRetryChunks =
                                    SeqMapSet(@, key, s.now + RETRY_DELAY_MS),
                                !.loadingChunks = @ \ {key},
                                !.abortControllers = MapDelete(@, key)],
                            f, outcome, FALSE, FALSE),
                        phase),
                    key, phase)
          [] outcome \in {"ok", "demMissing"} ->
                IF key \notin s0.loadingChunks
                THEN loadChunkFinally(
                         processLoadQueue(
                             Caught(s0, [s0 EXCEPT !.abortControllers = MapDelete(@, key)],
                                    f, outcome, FALSE, FALSE),
                             phase),
                         key, phase)
                ELSE loadChunkFinally(
                         Caught(s0, buildAndSwap(s0, givenUp, f, outcome),
                                f, outcome,
                                ~meshBuildThrows(outcome), meshBuildThrows(outcome)),
                         key, phase)
          [] outcome \notin Resolved /\ errorClass(outcome) = "ignore" ->
                loadChunkFinally(Caught(s0, s0, f, outcome, FALSE, FALSE), key, phase)
          [] outcome \notin Resolved /\ errorClass(outcome) = "blacklist" ->
                loadChunkFinally(
                    Caught(s0,
                        [givenUp EXCEPT
                            !.blacklistedChunks = @ \cup {key},
                            !.decodeFailed = @ \cup {key}],
                        f, outcome, FALSE, FALSE),
                    key, phase)
          [] outcome \notin Resolved /\ errorClass(outcome) = "cooldown" ->
                loadChunkFinally(
                    Caught(s0,
                        [givenUp EXCEPT
                            !.failedChunks = MapSet(@, key, cooldownEnd(s)),
                            !.hardFail = MapSet(@, key, s.now)],
                        f, outcome, FALSE, FALSE),
                    key, phase)

\* The ids of the fetches of `r` that were started after state `s`, in the
\* handler that settled fetch `id`.
StartedSince(s, id, r) == DOMAIN r.fetches \ (DOMAIN s.fetches \ {id})

\* One fetch completion.  History: what the whole handler did to the key.
loadChunkSettle(s, id, outcome, phase) ==
    LET key == s.fetches[id].key
        r == loadChunkAfterAwait(s, id, outcome, phase)
    IN  [r EXCEPT
            !.settled.penalised =
                \/ key \in DOMAIN r.failedChunks \ DOMAIN s.failedChunks
                \/ key \in SeqMapKeys(r.pendingRetryChunks) \ SeqMapKeys(s.pendingRetryChunks)
                \/ key \in r.blacklistedChunks \ s.blacklistedChunks,
            !.settled.loadedChanged = r.loadedChunks # s.loadedChunks,
            !.settled.dropped = DOMAIN s.loadedChunks \ DOMAIN r.loadedChunks,
            !.settled.started = r.started - s.started,
            !.settled.cleared =
                \/ /\ key \notin r.loadingChunks
                   /\ key \notin DOMAIN r.loadingResolutions
                   /\ key \notin DOMAIN r.abortControllers
                \/ /\ key \in DOMAIN r.abortControllers
                   /\ r.abortControllers[key] \in StartedSince(s, id, r)]

(***************************************************************************)
(* destroy                                                                 *)
(***************************************************************************)
\* abortControllers.forEach(controller => controller.abort())
RECURSIVE abortAll(_, _)
abortAll(s, cells) ==
    IF cells = << >> THEN s
    ELSE abortAll(abortStored(s, Head(cells)), Tail(cells))

\* Mutant: the queue survives destroy().
destroyKeepsQueue(s) ==
    LET s1 == [abortAll(s, GridSeq) EXCEPT
                  !.abortControllers = EmptyMap,
                  !.loadingResolutions = EmptyMap]
    IN  unloadChunks(s1, DOMAIN s1.loadedChunks, GridSeq)

destroy(s) ==
    LET s1 == [abortAll(s, GridSeq) EXCEPT
                  !.abortControllers = EmptyMap,
                  !.loadingResolutions = EmptyMap,
                  !.loadQueue = << >>]
    IN  unloadChunks(s1, DOMAIN s1.loadedChunks, GridSeq)

(***************************************************************************)
(* Actions.                                                                *)
(***************************************************************************)
\* The fields on entry to a handler: the history of the latest handler
\* starts empty.
HandlerEntry ==
    [Fields EXCEPT !.evicted = {}, !.requeued = EmptyMap, !.drain = NoDrain,
                   !.settled = NoSettle, !.enqueuedResident = NoEnqueuedResident]

\* Nothing has happened to the manager since its construction but the
\* passing of time.
Fresh == started = 0 /\ lastCamera = << >> /\ lifecycle = "live"

\* A drain can busy-wait only on a queued key that is under cooldown; update()
\* queues such a key only from pendingRetryChunks.  Otherwise the rotation
\* is not used and one value stands for all.
Phases(cooling, queued) == IF cooling \cap queued # {} THEN 0..MaxPhase ELSE {0}

KeysQueued == {<<loadQueue[i].chunkX, loadQueue[i].chunkZ>> : i \in 1..Len(loadQueue)}

\* AbortController.abort() rejects the promise of its fetch at once, so the
\* catch and finally blocks of an aborted loadChunk run as microtasks when
\* the handler that aborted it returns: before any timer, network completion
\* or clock reading of a later handler.
AbortPending == \E id \in DOMAIN fetches : fetches[id].aborted

\* The host calls update(cameraPosition).
Update ==
    /\ started < MaxFetches
    /\ ~AbortPending
    /\ lifecycle = "live"
    /\ \E pos \in CameraPositions,
          phase \in Phases(DOMAIN failedChunks,
                           KeysQueued \cup SeqMapKeys(pendingRetryChunks)) :
          Commit(update(HandlerEntry, pos, phase))
    /\ afterUpdate' = TRUE
    /\ afterFirstUpdate' = Fresh
    /\ UNCHANGED lifecycle
    /\ latest' = Latest("update", 0)

\* A fetch that was not aborted settles with one of the outcomes of
\* fetchChunkOnce.
Settle ==
    /\ started < MaxFetches
    /\ ~AbortPending
    /\ \E id \in DOMAIN fetches, outcome \in Outcomes :
          /\ ~fetches[id].aborted
          /\ \E phase \in Phases(DOMAIN failedChunks \cup {fetches[id].key}, KeysQueued) :
                Commit(loadChunkSettle(HandlerEntry, id, outcome, phase))
    /\ afterUpdate' = FALSE
    /\ afterFirstUpdate' = FALSE
    /\ lifecycle' = IF lifecycle = "live" THEN "live" ELSE "destroyed"
    /\ latest' = Latest("settle", 0)

\* An aborted fetch rejects with an AbortError.
SettleAborted ==
    /\ started < MaxFetches
    /\ \E id \in DOMAIN fetches, phase \in Phases(DOMAIN failedChunks, KeysQueued) :
          /\ fetches[id].aborted
          /\ Commit(loadChunkSettle(HandlerEntry, id, "abort", phase))
    /\ afterUpdate' = FALSE
    /\ afterFirstUpdate' = FALSE
    /\ lifecycle' = IF lifecycle = "live" THEN "live" ELSE "destroyed"
    /\ latest' = Latest("settle", 0)

\* The host calls destroy(); it calls no method of the manager afterwards.
Destroy ==
    /\ lifecycle = "live"
    /\ ~AbortPending
    /\ Commit(destroy(HandlerEntry))
    /\ afterUpdate' = FALSE
    /\ afterFirstUpdate' = FALSE
    /\ lifecycle' = "justDestroyed"
    /\ latest' = Latest("destroy", 0)

\* Time passes between two handlers.  The clock is not followed after
\* destroy(): the handlers that can still run only store what they read.
Advance ==
    /\ now < MaxNow
    /\ ~AbortPending
    /\ lifecycle = "live"
    /\ now' = now + ClockStep
    /\ afterUpdate' = FALSE
    /\ afterFirstUpdate' = FALSE
    /\ evicted' = {}
    /\ requeued' = EmptyMap
    /\ drain' = NoDrain
    /\ settled' = NoSettle
    /\ enqueuedResident' = NoEnqueuedResident
    /\ UNCHANGED << loadedChunks, loadingChunks, loadQueue, pendingRetryChunks,
                    failedChunks, blacklistedChunks, abortControllers,
                    loadingResolutions, fetches, started, lastCamera, hardFail,
                    decodeFailed, reRequest, notReadyAt, lifecycle, selected,
                    debugVisuals, records, tileLoads, callbacks, requested >>
    /\ latest' = Latest("advance", 0)

Next == Update \/ Settle \/ SettleAborted \/ Destroy \/ Advance

Spec == Init /\ [][Next]_vars

(***************************************************************************)
(* A second specification of the same handlers for the long runs of the    *)
(* queue: the host moves between two positions only and the server has    *)
(* every chunk but the one at the origin, whose fetch may also fail or      *)
(* report that the chunk is not ready; that leaves room for more fetches.   *)
(***************************************************************************)
\* No handler of SpecDeep runs once this many fetches have been started.
DeepMaxFetches == 8

DeepCameraPositions == { <<-950, 50>>, <<50, 50>> }

DeepOutcomes(key) ==
    IF key = <<0, 0>> THEN {"ok", "fetchError", "notReady"} ELSE {"ok"}

UpdateDeep ==
    /\ started < DeepMaxFetches
    /\ ~AbortPending
    /\ \E pos \in DeepCameraPositions,
          phase \in Phases(DOMAIN failedChunks,
                           KeysQueued \cup SeqMapKeys(pendingRetryChunks)) :
          Commit(update(HandlerEntry, pos, phase))
    /\ afterUpdate' = TRUE
    /\ afterFirstUpdate' = Fresh
    /\ UNCHANGED lifecycle
    /\ latest' = Latest("update", 0)

SettleDeep ==
    /\ started < DeepMaxFetches
    /\ ~AbortPending
    /\ \E id \in DOMAIN fetches : \E outcome \in DeepOutcomes(fetches[id].key) :
          /\ ~fetches[id].aborted
          /\ \E phase \in Phases(DOMAIN failedChunks \cup {fetches[id].key}, KeysQueued) :
                Commit(loadChunkSettle(HandlerEntry, id, outcome, phase))
    /\ afterUpdate' = FALSE
    /\ afterFirstUpdate' = FALSE
    /\ UNCHANGED lifecycle
    /\ latest' = Latest("settle", 0)

SettleAbortedDeep ==
    /\ started < DeepMaxFetches
    /\ \E id \in DOMAIN fetches, phase \in Phases(DOMAIN failedChunks, KeysQueued) :
          /\ fetches[id].aborted
          /\ Commit(loadChunkSettle(HandlerEntry, id, "abort", phase))
    /\ afterUpdate' = FALSE
    /\ afterFirstUpdate' = FALSE
    /\ UNCHANGED lifecycle
    /\ latest' = Latest("settle", 0)

NextDeep == UpdateDeep \/ SettleDeep \/ SettleAbortedDeep \/ Advance

SpecDeep == Init /\ [][NextDeep]_vars

(***************************************************************************)
(* setDebugVisuals, and a specification in which the host calls it between *)
(* the handlers of the second specification.                                *)
(***************************************************************************)
\* Mutant: the rebuilt mesh takes the vertices per side for its segments.
rebuiltResolutionFromVertices(resolution) == resolution + 1

\* geometry.parameters.widthSegments of the clone of the old geometry, which
\* buildTerrainMesh uses as the widthSegments of the new mesh.
rebuiltResolution(resolution) == resolution

\* The second forEach: each chunk of chunksToRebuild is built again and
\* stored under its key.
RECURSIVE rebuildChunks(_, _, _)
rebuildChunks(s, chunksToRebuild, cells) ==
    IF cells = << >> THEN s
    ELSE rebuildChunks(
             IF MapHas(chunksToRebuild, Head(cells))
             THEN [s EXCEPT !.loadedChunks =
                      MapSet(@, Head(cells), rebuiltResolution(chunksToRebuild[Head(cells)]))]
             ELSE s,
             chunksToRebuild, Tail(cells))

setDebugVisuals(s) ==
    LET chunksToRebuild == s.loadedChunks
    IN  rebuildChunks([s EXCEPT !.loadedChunks = EmptyMap], chunksToRebuild, GridSeq)

\* The host calls setDebugVisuals(enabled).
SetDebugVisuals ==
    /\ ~AbortPending
    /\ lifecycle = "live"
    /\ \E enabled \in BOOLEAN : debugVisuals' = enabled
    /\ LET s == setDebugVisuals(HandlerEntry)
       IN  /\ loadedChunks' = s.loadedChunks
           /\ loadingChunks' = s.loadingChunks
           /\ loadQueue' = s.loadQueue
           /\ pendingRetryChunks' = s.pendingRetryChunks
           /\ failedChunks' = s.failedChunks
           /\ blacklistedChunks' = s.blacklistedChunks
           /\ abortControllers' = s.abortControllers
           /\ loadingResolutions' = s.loadingResolutions
           /\ fetches' = s.fetches
           /\ started' = s.started
           /\ lastCamera' = s.lastCamera
           /\ now' = s.now
           /\ hardFail' = s.hardFail
           /\ decodeFailed' = s.decodeFailed
           /\ reRequest' = s.reRequest
           /\ evicted' = s.evicted
           /\ requeued' = s.requeued
           /\ drain' = s.drain
           /\ notReadyAt' = s.notReadyAt
           /\ settled' = s.settled
           /\ enqueuedResident' = s.enqueuedResident
    /\ afterUpdate' = FALSE
    /\ afterFirstUpdate' = FALSE
    /\ latest' = Latest("setDebugVisuals", 0)
    /\ UNCHANGED << lifecycle, selected, records, tileLoads, callbacks, requested >>

\* The handlers of SpecDebug other than setDebugVisuals stop once this many
\* fetches have been started.
DebugMaxFetches == 6

NextDebug ==
    \/ started < DebugMaxFetches /\ UpdateDeep
    \/ started < DebugMaxFetches /\ SettleDeep
    \/ started < DebugMaxFetches /\ SettleAbortedDeep
    \/ started < DebugMaxFetches /\ Advance
    \/ SetDebugVisuals

SpecDebug == Init /\ [][NextDebug]_vars

(***************************************************************************)
(* A specification of selectResolution alone: a distance is drawn, the     *)
(* function is applied to it.  The source takes the distance in metres, a  *)
(* real number; the model takes its square, so that the distances drawn    *)
(* are the whole numbers up to MaxDistance and, for each, a distance just  *)
(* above it.                                                               *)
(***************************************************************************)
\* The largest whole distance drawn, in metres.
MaxDistance == 700

SelectInputs ==
    {d * d + above : d \in 0..MaxDistance, above \in {0, 1}}

InitSelect ==
    /\ loadedChunks = EmptyMap
    /\ loadingChunks = {}
    /\ loadQueue = << >>
    /\ pendingRetryChunks = << >>
    /\ failedChunks = EmptyMap
    /\ blacklistedChunks = {}
    /\ abortControllers = EmptyMap
    /\ loadingResolutions = EmptyMap
    /\ fetches = EmptyMap
    /\ started = 0
    /\ now = 0
    /\ lastCamera = << >>
    /\ afterUpdate = FALSE
    /\ hardFail = EmptyMap
    /\ decodeFailed = {}
    /\ reRequest = EmptyMap
    /\ evicted = {}
    /\ requeued = EmptyMap
    /\ drain = NoDrain
    /\ notReadyAt = EmptyMap
    /\ enqueuedResident = NoEnqueuedResident
    /\ settled = NoSettle
    /\ lifecycle = "live"
    /\ afterFirstUpdate = FALSE
    /\ latest = Latest("constructor", 0)
    /\ debugVisuals = FALSE
    /\ records = EmptyMap
    /\ tileLoads = NoTileLoads
    /\ callbacks = NoCallbacks
    /\ requested = NotRequested
    /\ \E distanceSq \in SelectInputs :
          selected = [distanceSq |-> distanceSq, resolution |-> NotSelected]

Select ==
    /\ selected.resolution = NotSelected
    /\ selected' = [selected EXCEPT !.resolution = selectResolution(selected.distanceSq)]
    /\ UNCHANGED << loadedChunks, loadingChunks, loadQueue, pendingRetryChunks,
                    failedChunks, blacklistedChunks, abortControllers,
                    loadingResolutions, fetches, started, now, lastCamera, afterUpdate,
                    hardFail, decodeFailed, reRequest, evicted, requeued, drain,
                    notReadyAt, settled, enqueuedResident, lifecycle, afterFirstUpdate,
                    latest, debugVisuals, records, tileLoads, callbacks, requested >>

NextSelect == Select

SpecSelect == InitSelect /\ [][NextSelect]_vars

(***************************************************************************)
(* A specification for the progress of the manager: the observer stands    *)
(* still, the host keeps calling update(), time passes and every fetch     *)
(* completes.  The fetches of the keys of GoodKeys return buildable data;  *)
(* those of the other keys return not-ready, fail or cannot be built.      *)
(* There is no limit on the number of fetches.  The clock is kept finite   *)
(* by moving its origin to the present after every handler: the code       *)
(* compares instants with Date.now() and adds delays to Date.now(), never  *)
(* anything else, so an instant that is already past is kept as the        *)
(* present (or as far back as the delay a later comparison adds to it).    *)
(***************************************************************************)
LivePosition == <<50, 50>>

GoodKeys == { <<3, 0>>, <<4, 0>> }

LiveOutcomes(key) ==
    IF key \in GoodKeys THEN {"ok"} ELSE {"notReady", "fetchError", "demMissing"}

\* An AbortController of every fetch that can be in flight at once.
FetchIds == 1..(MAX_CONCURRENT_LOADS + 1)

Max(a, b) == IF a > b THEN a ELSE b

\* The instants of map m seen from the instant `origin`, none farther back
\* than `back`.
SinceMap(m, origin, back) == [k \in DOMAIN m |-> Max(m[k] - origin, 0 - back)]

Rebase(s) ==
    [s EXCEPT
        !.now = 0,
        !.started = 0,
        !.failedChunks = SinceMap(@, s.now, 0),
        !.pendingRetryChunks =
            [i \in 1..Len(@) |-> [key |-> @[i].key, time |-> Max(@[i].time - s.now, 0)]],
        !.hardFail = SinceMap(@, s.now, FAILED_CHUNK_COOLDOWN_MS),
        !.notReadyAt = SinceMap(@, s.now, RETRY_DELAY_MS)]

UpdateLive ==
    /\ \E phase \in Phases(DOMAIN failedChunks,
                           KeysQueued \cup SeqMapKeys(pendingRetryChunks)) :
          Commit(Rebase(update(HandlerEntry, LivePosition, phase)))
    /\ afterUpdate' = TRUE
    /\ afterFirstUpdate' = Fresh
    /\ UNCHANGED lifecycle
    /\ latest' = Latest("update", 0)

SettleLive(id) ==
    /\ id \in DOMAIN fetches
    /\ \E outcome \in LiveOutcomes(fetches[id].key) :
          \E phase \in Phases(DOMAIN failedChunks \cup {fetches[id].key}, KeysQueued) :
              Commit(Rebase(loadChunkSettle(HandlerEntry, id, outcome, phase)))
    /\ afterUpdate' = FALSE
    /\ afterFirstUpdate' = FALSE
    /\ UNCHANGED lifecycle
    /\ latest' = Latest("settle", id)

AdvanceLive ==
    /\ Commit(Rebase([HandlerEntry EXCEPT !.now = @ + ClockStep]))
    /\ afterUpdate' = FALSE
    /\ afterFirstUpdate' = FALSE
    /\ UNCHANGED lifecycle
    /\ latest' = Latest("advance", 0)

NextLive == UpdateLive \/ (\E id \in FetchIds : SettleLive(id)) \/ AdvanceLive

\* The steps of the three kinds, told by the handler they leave as the
\* latest one.
Ticked == latest' = Latest("update", 0)

TimePassed == latest' = Latest("advance", 0)

Completed(id) == id \in DOMAIN fetches /\ latest' = Latest("settle", id)

\* update() is called again and again, time passes between the handlers,
\* and a fetch that is in flight completes.
FairLive ==
    /\ WF_latest(Ticked)
    /\ WF_latest(TimePassed)
    /\ \A id \in FetchIds : WF_latest(Completed(id))

SpecLive == Init /\ [][NextLive]_vars /\ FairLive

(***************************************************************************)
(* Properties.                                                             *)
(***************************************************************************)
\* The fetches that were started and have neither settled nor been aborted.
LiveFetches == {id \in DOMAIN fetches : ~fetches[id].aborted}

LiveFetchesOf(key) == {id \in LiveFetches : fetches[id].key = key}

\* C1: in every reachable state the number of fetches that were started and
\* have neither settled nor been aborted is at most MAX_CONCURRENT_LOADS.
C1_BudgetNeverExceeded == Cardinality(LiveFetches) <= MAX_CONCURRENT_LOADS

\* C2: for every chunk key at most one fetch started for that key is live
\* (not settled, not aborted).
C2_OneLiveFetchPerKey == \A key \in Grid : Cardinality(LiveFetchesOf(key)) <= 1

\* C3: while a fetch for key K at resolution r is live, no second fetch for
\* (K, r) is started: no two live fetches carry the same key and resolution.
C3_NoSecondFetchSameResolution ==
    \A a, b \in LiveFetches :
        (fetches[a].key = fetches[b].key /\ fetches[a].resolution = fetches[b].resolution)
            => a = b

\* C4: after a tick aborted the fetch of K because the desired resolution
\* changed to r2, and while r2 stays desired and no fetch of (K, r2) has failed,
\* at most one fetch for (K, r2) is started before K is resident at r2.
C4_OneFetchAfterResolutionChange ==
    \A key \in DOMAIN reRequest : reRequest[key].count <= 1

\* C5: a fetch for K is never started earlier than FAILED_CHUNK_COOLDOWN_MS
\* after the latest fetch error of K (unless K was evicted in between):
\* every fetch in flight was started with that cooldown over.
C5_NoRetryBeforeCooldown == \A id \in DOMAIN fetches : fetches[id].cooledDown

\* A key whose fetch failed is being fetched again: its failedChunks entry
\* was consumed by the retry and the retry is in flight.
C5_RetryAfterCooldown ==
    \E key \in DOMAIN hardFail :
        /\ key \notin DOMAIN failedChunks
        /\ LiveFetchesOf(key) # {}
        /\ now >= hardFail[key] + FAILED_CHUNK_COOLDOWN_MS

\* C6: no fetch is started for a key while the key is in blacklistedChunks.
C6_NoFetchWhileBlacklisted == \A id \in DOMAIN fetches : ~fetches[id].blacklistedAtStart

\* A tick has just run with a blacklisted key inside the window, and the key
\* has no fetch.
C6_BlacklistedKeySkipped ==
    /\ afterUpdate
    /\ \E key \in blacklistedChunks : InWindow(lastCamera, key) /\ LiveFetchesOf(key) = {}

\* C7: in every reachable state the load queue holds no entry whose key is
\* blacklisted.
C7_NoBlacklistedKeyQueued == KeysQueued \cap blacklistedChunks = {}

\* C8: once a fetch for K ended in a decode failure, no fetch for K is
\* started again, also after K left the unload radius and came back.
C8_NoFetchAfterDecodeFailure == \A id \in DOMAIN fetches : ~fetches[id].afterDecodeFailure

\* Every trace the manager keeps of a key, and every fetch of it in flight.
Tracked(key) ==
    \/ LiveFetchesOf(key) # {}
    \/ key \in loadingChunks
    \/ key \in DOMAIN abortControllers
    \/ key \in DOMAIN loadingResolutions
    \/ key \in DOMAIN loadedChunks
    \/ key \in SeqMapKeys(pendingRetryChunks)
    \/ key \in DOMAIN failedChunks
    \/ key \in blacklistedChunks

\* C9: right after an update() tick, a key farther than UNLOAD_RADIUS from
\* the observer chunk has no fetch in flight and no entry in loadedChunks,
\* pendingRetryChunks, failedChunks, blacklistedChunks or loadingResolutions.
C9_EvictionClearsKey ==
    afterUpdate =>
        \A key \in Grid : Chebyshev(lastCamera, key) > UNLOAD_RADIUS => ~Tracked(key)

\* C10: a fetch is started only for a key within LOAD_RADIUS of the observer
\* chunk of the latest update() tick.
C10_FetchOnlyInsideLoadRadius == \A id \in DOMAIN fetches : fetches[id].inLoadRadius

\* C11: update() never unloads a resident chunk whose Chebyshev grid distance
\* from the observer chunk is at most UNLOAD_RADIUS: every key the tick
\* removed from loadedChunks is farther away than that.
C11_NoUnloadWithinUnloadRadius ==
    afterUpdate => \A key \in evicted : Chebyshev(lastCamera, key) > UNLOAD_RADIUS

\* A tick has just run with a chunk resident in the hysteresis band (grid
\* distance 11 or 12), and the chunk is still resident.
C11_ResidentInBandKept ==
    /\ afterUpdate
    /\ \E key \in DOMAIN loadedChunks :
          /\ Chebyshev(lastCamera, key) > LOAD_RADIUS
          /\ Chebyshev(lastCamera, key) <= UNLOAD_RADIUS

\* The entries of the load queue for one key.
EntriesOf(key) ==
    {i \in 1..Len(loadQueue) : loadQueue[i].chunkX = key[1] /\ loadQueue[i].chunkZ = key[2]}

\* C12: whenever processLoadQueue starts a fetch for a queued entry, no other
\* entry still in the queue that is eligible to start (not blacklisted, not
\* satisfied, not under cooldown) has a strictly smaller distanceSquared.
C12_AdmittedInPriorityOrder == ~drain.overtaken

\* C13: after destroy() returns all scheduler state is empty and no live
\* un-aborted fetch remains.
C13_DestroyClearsAllState ==
    lifecycle = "justDestroyed" =>
        /\ DOMAIN loadedChunks = {}
        /\ loadQueue = << >>
        /\ loadingChunks = {}
        /\ DOMAIN loadingResolutions = {}
        /\ DOMAIN abortControllers = {}
        /\ pendingRetryChunks = << >>
        /\ DOMAIN failedChunks = {}
        /\ blacklistedChunks = {}
        /\ LiveFetches = {}

Min(a, b) == IF a < b THEN a ELSE b

\* C14: after the first update() of a fresh manager the keys that are queued
\* or being fetched are exactly the keys within LOAD_RADIUS of the observer
\* chunk on both axes, each at the resolution selectResolution gives for the
\* distance from the observer to the chunk's center, and the fetches started
\* are the min(MAX_CONCURRENT_LOADS, count) keys of smallest squared grid
\* distance.
C14_FirstUpdateRequestsWindow ==
    afterFirstUpdate =>
        \E pos \in CameraPositions :
            LET window == {key \in Grid : Chebyshev(lastCamera, key) <= LOAD_RADIUS}
                startedKeys == {fetches[id].key : id \in DOMAIN fetches}
            IN  /\ getChunkCoords(pos) = lastCamera
                /\ KeysQueued \cup startedKeys = window
                /\ KeysQueued \cap startedKeys = {}
                /\ \A i \in 1..Len(loadQueue) :
                      loadQueue[i].resolution =
                          selectResolution(calculateChunkCenterDistanceSq(
                              pos, <<loadQueue[i].chunkX, loadQueue[i].chunkZ>>))
                /\ \A id \in DOMAIN fetches :
                      fetches[id].resolution =
                          selectResolution(calculateChunkCenterDistanceSq(pos, fetches[id].key))
                /\ Cardinality(DOMAIN fetches) = Cardinality(startedKeys)
                /\ Cardinality(startedKeys) = Min(MAX_CONCURRENT_LOADS, Cardinality(window))
                /\ \A a \in startedKeys, b \in window \ startedKeys :
                      calculateChunkDistance(lastCamera, a)
                          <= calculateChunkDistance(lastCamera, b)

\* The first update() has just run with more keys in the window than the
\* budget admits: some were started and the others are queued.
C14_FirstUpdateFillsBudget ==
    /\ afterFirstUpdate
    /\ Cardinality(DOMAIN fetches) = MAX_CONCURRENT_LOADS
    /\ Len(loadQueue) > 0

\* C15: in every reachable state each chunk key appears at most once in
\* loadQueue, and a key that was enqueued again with a different resolution
\* has no entry but the one carrying the new resolution.
C15_KeyQueuedOnce ==
    /\ \A key \in Grid : Cardinality(EntriesOf(key)) <= 1
    /\ \A key \in DOMAIN requeued :
          requeued[key].replaced =>
              \A i \in EntriesOf(key) : loadQueue[i].resolution = requeued[key].resolution

\* A queued key was enqueued again with another resolution by the latest
\* handler and is still queued.
C15_EntryReplaced ==
    \E key \in DOMAIN requeued :
        /\ requeued[key].replaced
        /\ requeued[key].previous # requeued[key].resolution
        /\ EntriesOf(key) # {}

\* C16: in every reachable state loadQueue is ordered by non-decreasing
\* distanceSquared from head to tail.
C16_QueueSortedByDistance ==
    \A i \in 1..(Len(loadQueue) - 1) :
        loadQueue[i].distanceSquared <= loadQueue[i + 1].distanceSquared

Resolutions == {LOD_LEVELS[i].resolution : i \in 1..Len(LOD_LEVELS)}

CameraChunks == {getChunkCoords(pos) : pos \in CameraPositions}

\* C17: enqueueChunkLoad for a key already queued with the same resolution
\* and the same distanceSquared leaves loadQueue unchanged in contents and
\* order; with another resolution or another distanceSquared the entry of
\* the key is replaced by the new request.  Checked on every reachable queue,
\* for every queued key, observer chunk and resolution.
C17_EnqueueIdempotent ==
    \A i \in 1..Len(loadQueue), cam \in CameraChunks, resolution \in Resolutions :
        LET key == <<loadQueue[i].chunkX, loadQueue[i].chunkZ>>
            after == enqueueChunkLoad(Fields, key, cam, resolution).loadQueue
            mine == {j \in 1..Len(after) : after[j].chunkX = key[1] /\ after[j].chunkZ = key[2]}
        IN  IF /\ loadQueue[i].resolution = resolution
               /\ loadQueue[i].distanceSquared = calculateChunkDistance(cam, key)
            THEN after = loadQueue
            ELSE /\ Len(after) = Len(loadQueue)
                 /\ \A j \in mine :
                       /\ after[j].resolution = resolution
                       /\ after[j].distanceSquared = calculateChunkDistance(cam, key)

\* The latest handler called enqueueChunkLoad for a key that was queued with
\* the same resolution and priority beside other entries, and left the queue
\* alone.
C17_UnchangedRequestSeen ==
    /\ Len(loadQueue) >= 2
    /\ \E key \in DOMAIN requeued :
          /\ ~requeued[key].replaced
          /\ EntriesOf(key) # {}

\* C18: when processLoadQueue dequeues an entry whose key is under an
\* unexpired cooldown it re-appends the entry and ends the pass: no entry is
\* dequeued later in the same call.
C18_PushBackEndsPass == ~drain.resumed

\* C19: every call of processLoadQueue terminates after finitely many loop
\* iterations with the clock held fixed: no call has to wait for the clock
\* to pass a cooldown.
C19_DrainTerminatesWithFixedClock == ~drain.busyWaited

\* C20: after a fetch for K returned not-ready at time t, no fetch for K is
\* started before t + RETRY_DELAY_MS: every fetch in flight was started with
\* that delay over.
C20_NoRetryBeforeRetryDelay == \A id \in DOMAIN fetches : fetches[id].retryDelayOver

\* C21: in every reachable state no key is present in both failedChunks and
\* pendingRetryChunks.
C21_FailedAndPendingExclusive ==
    DOMAIN failedChunks \cap SeqMapKeys(pendingRetryChunks) = {}

\* C22 as stated: no fetch for (K, r) is started while K has a resident mesh
\* of resolution r, and update() queues no key that is resident at its
\* desired resolution.
C22_ResidentNeitherQueuedNorFetched ==
    /\ \A id \in DOMAIN fetches : ~fetches[id].residentAtStart
    /\ enqueuedResident.window = {}
    /\ enqueuedResident.sweep = {}

\* C22, amended: no fetch for (K, r) is started while K has a resident mesh
\* of resolution r, and the loop of update() over the window queues no key
\* that is resident at its desired resolution; the sweep of the due retries
\* may queue such a key, and no fetch is started for that request.
C22_ResidentNeverRefetched ==
    /\ \A id \in DOMAIN fetches : ~fetches[id].residentAtStart
    /\ enqueuedResident.window = {}

\* The sweep of update() has queued a key resident at its desired
\* resolution, which is still resident and not being fetched.
C22_DueRetryOfResidentQueued ==
    \E key \in enqueuedResident.sweep :
        /\ MapHas(loadedChunks, key)
        /\ LiveFetchesOf(key) = {}

\* C23: whenever a fetch completion installs a mesh for key K, the fetch is
\* the one tracked for K: its resolution equals loadingResolutions[K] at
\* that moment.
C23_OnlyTrackedResultLands == settled.installed => settled.current

\* C24: no fetch completion removes a key from loadedChunks.
C24_CompletionKeepsResident == settled.dropped = {}

\* A level-of-detail refetch of a resident key has just ended without a new
\* mesh, and the key is still resident.
C24_RefetchFailedMeshKept ==
    /\ settled.outcome \in {"notReady", "fetchError", "decodeError", "demMissing", "abort"}
    /\ settled.key \in DOMAIN loadedChunks

\* C25: the completion of an aborted fetch for K adds K to none of
\* failedChunks, pendingRetryChunks or blacklistedChunks and does not change
\* loadedChunks.
C25_AbortCarriesNoPenalty ==
    settled.outcome = "abort" => ~settled.penalised /\ ~settled.loadedChanged

\* An aborted fetch has just completed and its key is being fetched at the
\* resolution the tick asked for.
C25_AbortedKeyRescheduled ==
    /\ settled.outcome = "abort"
    /\ lifecycle = "live"
    /\ LiveFetchesOf(settled.key) # {}

\* C26: a decode size mismatch or a mesh-build exception blacklists the key
\* and sets no cooldown; any other non-abort fetch error sets a cooldown and
\* does not blacklist; an abort does neither.  In all three cases the
\* tracking of the fetch is cleared: what is tracked for the key after the
\* handler belongs to a fetch the handler started.
C26_FailureClassificationExclusive ==
    /\ (settled.outcome = "decodeError" \/ settled.buildFailed) =>
           settled.blacklistSet /\ ~settled.failedChanged
    /\ settled.outcome = "fetchError" =>
           settled.cooldownSet /\ ~settled.blacklistChanged
    /\ settled.outcome = "abort" =>
           ~settled.failedChanged /\ ~settled.blacklistChanged
    /\ (settled.outcome \in {"decodeError", "fetchError", "abort"} \/ settled.buildFailed) =>
           settled.cleared

\* Every class of failure has been handled: a build failure just now, a
\* decode failure and a network error before it.
C26_FailureHandled ==
    /\ settled.buildFailed
    /\ decodeFailed # {}
    /\ DOMAIN hardFail # {}

\* C27: after an update() tick no fetch that was started for a key inside
\* the load radius is still in flight, un-aborted, for a key that is now
\* outside the load radius.
C27_FetchCancelledOutsideLoadRadius ==
    afterUpdate =>
        \A id \in LiveFetches :
            fetches[id].inLoadRadius => Chebyshev(lastCamera, fetches[id].key) <= LOAD_RADIUS

\* C30: selectResolution returns, for every distance d >= 0, the resolution
\* of the first band whose maxDistance is >= d (d <= 120 -> 128, d <= 200 ->
\* 64, d <= 600 -> 32, otherwise 16); the result is one of 128, 64, 32, 16
\* and no smaller distance has a smaller result.
C30_SelectResolutionBands ==
    selected.resolution # NotSelected =>
        /\ selected.resolution =
               IF selected.distanceSq <= 120 * 120 THEN 128
               ELSE IF selected.distanceSq <= 200 * 200 THEN 64
               ELSE IF selected.distanceSq <= 600 * 600 THEN 32
               ELSE 16
        /\ selected.resolution \in {128, 64, 32, 16}
        /\ \A nearer \in SelectInputs :
               nearer <= selected.distanceSq =>
                   selectResolution(nearer) >= selected.resolution

\* selectResolution has been applied to a distance that is the limit of a
\* band.
C30_BandLimitSelected ==
    /\ selected.resolution # NotSelected
    /\ selected.distanceSq \in {120 * 120, 200 * 200, 600 * 600}


\* C28: with the observer stationary, ticks continuing and every fetch
\* eventually completing, every key inside the load radius whose fetches
\* return buildable data eventually is resident at its desired resolution,
\* whatever the fetches of the other keys do.
C28_GoodKeysBecomeResident ==
    <>(\A key \in GoodKeys :
          Resident(Fields, key, desiredResolutionOf(LivePosition, key)))


\* The key has had a not-ready answer or a fetch error, has no mesh, is not
\* blacklisted, lies inside the load radius, and the delay of each of its
\* failures is over.
RetryDue(key) ==
    /\ MapHas(notReadyAt, key) \/ MapHas(hardFail, key)
    /\ MapHas(notReadyAt, key) => now >= notReadyAt[key] + RETRY_DELAY_MS
    /\ MapHas(hardFail, key) => now >= hardFail[key] + FAILED_CHUNK_COOLDOWN_MS
    /\ ~MapHas(loadedChunks, key)
    /\ key \notin blacklistedChunks
    /\ Chebyshev(lastCamera, key) <= LOAD_RADIUS

\* C29: not-ready answers and fetch errors never take a key out of
\* scheduling: after an update() tick a key whose retry is due is being
\* fetched, or it is queued and the budget is used up.
C29_RetriesUnlimited ==
    afterUpdate =>
        \A key \in Grid :
            RetryDue(key) =>
                \/ LiveFetchesOf(key) # {}
                \/ /\ key \in KeysQueued
                   /\ Cardinality(loadingChunks) >= MAX_CONCURRENT_LOADS

\* A key that has had a not-ready answer and a fetch error is fetched once
\* more by the tick at which its retry is due.
C29_FetchedAgainAfterFailures ==
    /\ afterUpdate
    /\ \E key \in Grid :
          /\ RetryDue(key)
          /\ MapHas(notReadyAt, key)
          /\ MapHas(hardFail, key)
          /\ LiveFetchesOf(key) # {}


\* C31: every live fetch (started, unsettled, not aborted) for key K at
\* resolution r has K in loadingChunks, loadingResolutions[K] = r and its own
\* AbortController in abortControllers[K].
C31_LiveFetchTracked ==
    \A id \in LiveFetches :
        LET key == fetches[id].key
        IN  /\ key \in loadingChunks
            /\ MapHas(loadingResolutions, key)
            /\ loadingResolutions[key] = fetches[id].resolution
            /\ MapHas(abortControllers, key)
            /\ abortControllers[key] = id


\* C32: immediately after update() returns every key of loadedChunks lies
\* within UNLOAD_RADIUS, on both axes, of the observer chunk of that tick.
C32_ResidentWithinUnloadRadius ==
    afterUpdate =>
        \A key \in DOMAIN loadedChunks :
            /\ Abs(key[1] - lastCamera[1]) <= UNLOAD_RADIUS
            /\ Abs(key[2] - lastCamera[2]) <= UNLOAD_RADIUS

\* A tick has evicted a chunk and kept another one, which lies in the band
\* between the two radii.
C32_TickEvictedAndKept ==
    /\ afterUpdate
    /\ evicted # {}
    /\ \E key \in DOMAIN loadedChunks : Chebyshev(lastCamera, key) > LOAD_RADIUS


\* C33: after destroy(), update() not being called again, no fetch is
\* started and no mesh is added to loadedChunks, in whatever order the
\* outstanding fetches settle.
C33_NothingStartsAfterDestroy ==
    lifecycle # "live" => settled.started = 0 /\ ~settled.installed


\* After destroy() a fetch that destroy() could not abort, because its
\* AbortController was no longer stored, has returned data, and the data was
\* discarded.
C33_LateResultDiscarded ==
    /\ lifecycle = "destroyed"
    /\ settled.outcome = "ok"
    /\ ~settled.installed
    /\ settled.started = 0

\* C34: a DEM-missing answer is not treated as an error: the completion
\* neither blacklists the key nor puts it under cooldown, and installs no
\* mesh.
C34_DemMissingIsNoError ==
    settled.outcome = "demMissing" =>
        /\ ~settled.blacklistChanged
        /\ ~settled.failedChanged
        /\ ~settled.installed


\* C35: setDebugVisuals changes only meshes: loadedChunks has the same keys
\* and each key the same mesh resolution as before, the queue and the
\* tracking, retry, cooldown and blacklist collections are unchanged, and so
\* are the fetches in flight and the clock: everything a following tick reads
\* is as it was, so the tick starts the fetches it would have started before.
C35_DebugVisualsChangesOnlyMeshes ==
    [][latest' = Latest("setDebugVisuals", 0) =>
          /\ DOMAIN loadedChunks' = DOMAIN loadedChunks
          /\ \A key \in DOMAIN loadedChunks : loadedChunks'[key] = loadedChunks[key]
          /\ UNCHANGED << loadQueue, loadingChunks, loadingResolutions, abortControllers,
                          pendingRetryChunks, failedChunks, blacklistedChunks >>
          /\ UNCHANGED << fetches, started, now >>
      ]_vars

\* setDebugVisuals has just switched the debug material on while chunks of
\* two resolutions are resident and a fetch is in flight.
C35_RebuiltWhileLoading ==
    /\ latest = Latest("setDebugVisuals", 0)
    /\ debugVisuals
    /\ \E a, b \in DOMAIN loadedChunks : loadedChunks[a] # loadedChunks[b]
    /\ LiveFetches # {}


(***************************************************************************)
(* A specification of the resolution fetchChunkOnce puts into the URL: a   *)
(* resolution is drawn, the clamp is applied to it.                        *)
(***************************************************************************)
\* The resolutions drawn are the integers from -MaxResolution to MaxResolution.
MaxResolution == 160

ResolutionInputs == (0 - MaxResolution)..MaxResolution

allowedResolutions == {16, 32, 64, 128}

\* allowedResolutions.includes(resolution) ? resolution
\*     : Math.min(Math.max(resolution, 16), 64)
clampedResolution(resolution) ==
    IF resolution \in allowedResolutions THEN resolution
    ELSE Min(Max(resolution, 16), 64)

NotClamped == 0

InitClamp ==
    /\ loadedChunks = EmptyMap
    /\ loadingChunks = {}
    /\ loadQueue = << >>
    /\ pendingRetryChunks = << >>
    /\ failedChunks = EmptyMap
    /\ blacklistedChunks = {}
    /\ abortControllers = EmptyMap
    /\ loadingResolutions = EmptyMap
    /\ fetches = EmptyMap
    /\ started = 0
    /\ now = 0
    /\ lastCamera = << >>
    /\ afterUpdate = FALSE
    /\ hardFail = EmptyMap
    /\ decodeFailed = {}
    /\ reRequest = EmptyMap
    /\ evicted = {}
    /\ requeued = EmptyMap
    /\ drain = NoDrain
    /\ notReadyAt = EmptyMap
    /\ enqueuedResident = NoEnqueuedResident
    /\ settled = NoSettle
    /\ lifecycle = "live"
    /\ afterFirstUpdate = FALSE
    /\ latest = Latest("constructor", 0)
    /\ debugVisuals = FALSE
    /\ records = EmptyMap
    /\ tileLoads = NoTileLoads
    /\ callbacks = NoCallbacks
    /\ selected = [distanceSq |-> 0, resolution |-> NotSelected]
    /\ \E resolution \in ResolutionInputs :
          requested = [resolution |-> resolution, urlResolution |-> NotClamped]

\* fetchChunkOnce up to the fetch of the URL.
FetchChunkOnce ==
    /\ requested.urlResolution = NotClamped
    /\ requested' = [requested EXCEPT !.urlResolution = clampedResolution(requested.resolution)]
    /\ UNCHANGED << loadedChunks, loadingChunks, loadQueue, pendingRetryChunks,
                    failedChunks, blacklistedChunks, abortControllers,
                    loadingResolutions, fetches, started, now, lastCamera, afterUpdate,
                    hardFail, decodeFailed, reRequest, evicted, requeued, drain,
                    notReadyAt, settled, enqueuedResident, lifecycle, afterFirstUpdate,
                    latest, debugVisuals, records, tileLoads, callbacks, selected >>

NextClamp == FetchChunkOnce

SpecClamp == InitClamp /\ [][NextClamp]_vars

\* C38: for every integer resolution handed to fetchChunkOnce, the
\* resolution placed in the URL is one of 16, 32, 64 and 128.
C38_UrlResolutionSupported ==
    requested.urlResolution # NotClamped => requested.urlResolution \in allowedResolutions


(***************************************************************************)
(* ImageryTileCache: getTile, the subscribe and unsubscribe functions of   *)
(* a handle, and the two callbacks handed to the texture loader.  A handle *)
(* holds its record, which is never replaced, so a handle is known by its  *)
(* tile key.  The loader calls one of onLoad and onError once per load.    *)
(***************************************************************************)
\* No getTile runs for a tile once this many have.
MaxGets == 2

\* No subscribe runs for a tile and a callback once this many have.
MaxSubscribes == 2

TileCache == [records |-> records, tileLoads |-> tileLoads, callbacks |-> callbacks]

Settled(c, key) == MapHas(c.records, key) /\ c.records[key].status # "loading"

\* loadTile: loader.load(url, onLoad, undefined, onError).
loadTile(c, key) ==
    [c EXCEPT !.tileLoads[key].issued = @ + 1, !.tileLoads[key].pending = @ + 1]

\* Mutant: getTile starts a load whether or not the tile has a record.
getTileAlwaysLoads(c, coord) ==
    LET key == getKey(coord)
        counted == [c EXCEPT !.tileLoads[key].gets = @ + 1,
                             !.tileLoads[key].late = IF Settled(c, key) THEN @ + 1 ELSE @]
    IN  IF MapHas(c.records, key) THEN loadTile(counted, key)
        ELSE loadTile([counted EXCEPT !.records =
                          MapSet(@, key, [status |-> "loading", listeners |-> {}])], key)

getTile(c, coord) ==
    LET key == getKey(coord)
        counted == [c EXCEPT !.tileLoads[key].gets = @ + 1,
                             !.tileLoads[key].late = IF Settled(c, key) THEN @ + 1 ELSE @]
    IN  IF MapHas(c.records, key) THEN counted
        ELSE loadTile([counted EXCEPT !.records =
                          MapSet(@, key, [status |-> "loading", listeners |-> {}])], key)

\* Mutant: subscribe always registers the callback and never invokes it.
subscribeNeverInvokes(c, key, cb) ==
    LET called == [c EXCEPT !.callbacks[key][cb].calls = @ + 1,
                            !.callbacks[key][cb].unsubscribed = FALSE]
    IN  [called EXCEPT !.records[key].listeners = @ \cup {cb},
                       !.callbacks[key][cb].unsubscribe = @ \cup {"delete"}]

\* handle.subscribe(onReady); the record's texture is set whenever its
\* status is "loaded".
subscribe(c, key, cb) ==
    LET called == [c EXCEPT !.callbacks[key][cb].calls = @ + 1,
                            !.callbacks[key][cb].unsubscribed = FALSE]
    IN  IF c.records[key].status = "loaded"
        THEN [called EXCEPT !.callbacks[key][cb].invoked = @ + 1,
                            !.callbacks[key][cb].unsubscribe = @ \cup {"noop"}]
        ELSE [called EXCEPT !.records[key].listeners = @ \cup {cb},
                            !.callbacks[key][cb].unsubscribe = @ \cup {"delete"}]

\* A function returned by subscribe: the no-op, or the one that deletes the
\* callback from the listeners of the record.
unsubscribe(c, key, cb, kind) ==
    IF kind = "noop" THEN c
    ELSE [c EXCEPT !.records[key].listeners = @ \ {cb},
                   !.callbacks[key][cb].unsubscribed = TRUE]

\* The onLoad callback of loadTile.
onLoad(c, key) ==
    [c EXCEPT !.tileLoads[key].pending = @ - 1,
              !.records[key] = [status |-> "loaded", listeners |-> {}],
              !.callbacks[key] =
                  [cb \in Callbacks |->
                      IF cb \in c.records[key].listeners
                      THEN [@[cb] EXCEPT !.invoked = @ + 1]
                      ELSE @[cb]]]

\* The onError callback of loadTile.
onError(c, key) ==
    [c EXCEPT !.tileLoads[key].pending = @ - 1,
              !.records[key] = [status |-> "error", listeners |-> {}]]

managerVars ==
    << loadedChunks, loadingChunks, loadQueue, pendingRetryChunks, failedChunks,
       blacklistedChunks, abortControllers, loadingResolutions, fetches, started, now,
       lastCamera, afterUpdate, hardFail, decodeFailed, reRequest, evicted, requeued,
       drain, notReadyAt, settled, enqueuedResident, selected, lifecycle,
       afterFirstUpdate, latest, debugVisuals, requested >>

CommitTiles(c) ==
    /\ records' = c.records
    /\ tileLoads' = c.tileLoads
    /\ callbacks' = c.callbacks
    /\ UNCHANGED managerVars

GetTile ==
    \E coord \in TileCoordinates :
        /\ tileLoads[getKey(coord)].gets < MaxGets
        /\ CommitTiles(getTile(TileCache, coord))

Subscribe ==
    \E key \in DOMAIN records, cb \in Callbacks :
        /\ callbacks[key][cb].calls < MaxSubscribes
        /\ CommitTiles(subscribe(TileCache, key, cb))

Unsubscribe ==
    \E key \in DOMAIN records, cb \in Callbacks :
        \E kind \in callbacks[key][cb].unsubscribe :
            CommitTiles(unsubscribe(TileCache, key, cb, kind))

TextureLoaded ==
    \E key \in DOMAIN records :
        /\ tileLoads[key].pending > 0
        /\ CommitTiles(onLoad(TileCache, key))

TextureFailed ==
    \E key \in DOMAIN records :
        /\ tileLoads[key].pending > 0
        /\ CommitTiles(onError(TileCache, key))

NextTiles == GetTile \/ Subscribe \/ Unsubscribe \/ TextureLoaded \/ TextureFailed

SpecTiles == Init /\ [][NextTiles]_vars

\* C36: at most one texture load is issued per tile key, whatever getTile
\* calls are made; a record starts as loading, its status changes only from
\* loading to loaded or from loading to error, and a record is never removed.
C36_OneLoadPerTile ==
    [][\A key \in TileKeys :
          /\ tileLoads'[key].issued <= 1
          /\ MapHas(records, key) =>
                 /\ MapHas(records', key)
                 /\ records'[key].status # records[key].status =>
                        /\ records[key].status = "loading"
                        /\ records'[key].status \in {"loaded", "error"}
          /\ ~MapHas(records, key) /\ MapHas(records', key) =>
                 records'[key].status = "loading"
      ]_vars

\* getTile was called again for a tile whose load had failed and for a tile
\* whose load had succeeded; each tile has had one load.
C36_GetAfterErrorAndAfterLoad ==
    \E failed, loaded \in DOMAIN records :
        /\ records[failed].status = "error"
        /\ records[loaded].status = "loaded"
        /\ tileLoads[failed].late > 0 /\ tileLoads[failed].issued = 1
        /\ tileLoads[loaded].late > 0 /\ tileLoads[loaded].issued = 1

=============================================================================
